---- MODULE Spec2Model ----
(***************************************************************************)
(* Model of monitor.py: the settings menu, the main menu and the sampling  *)
(* loop of executar_monitoramento, one action per statement group of the   *)
(* source, with the operator (inputs, Ctrl-C) and the operating system     *)
(* (target exit, descendant exit, failed readings) as the environment.     *)
(* Times are whole seconds; a float is a record so that NaN and None can   *)
(* be told apart from numbers.                                             *)
(***************************************************************************)
EXTENDS Integers, Sequences, FiniteSets, TLC

VARIABLES
    args,            \* sys.argv[1:]
    pc,              \* position of the single thread of control
    configuracoes,   \* the process-wide settings dict
    cfg_inicio,      \* history: configuracoes as it was when the run was launched
    execucoes,       \* history: number of runs launched so far
    arquivo,         \* local arquivo
    comando,         \* history: the argument list given to subprocess.Popen
    erro,            \* history: the error box shown by this call, if any
    processo_alvo,   \* the Popen object and the OS process behind it
    relogio,         \* time.perf_counter()
    inicio,          \* local inicio
    tempo_exec,      \* local tempo_exec
    mem, cpu,        \* locals mem and cpu of the current tick
    filhos,          \* descendants still to be visited by the for loop
    contrib,         \* history: what each visited descendant added on this tick
    medidas_ram, medidas_cpu, dados_csv,
    logs,            \* history: the log lines printed by this run
    motivo,          \* history: how the loop was left
    relatorio,       \* history: the RESULTADOS table shown by this run
    csv_arquivo,     \* history: the CSV file written by this run
    excecao          \* the exception that left the program, if any

vars == <<args, pc, configuracoes, cfg_inicio, execucoes, arquivo, comando, erro, processo_alvo,
          relogio,
          inicio, tempo_exec, mem, cpu, filhos, contrib, medidas_ram, medidas_cpu,
          dados_csv, logs, motivo, relatorio, csv_arquivo, excecao>>

\* the locals and outputs of one call of executar_monitoramento
run_vars == <<arquivo, comando, erro, processo_alvo, inicio, tempo_exec, mem, cpu, filhos, contrib,
              medidas_ram, medidas_cpu, dados_csv, logs, motivo, relatorio,
              csv_arquivo, cfg_inicio>>

----------------------------------------------------------------------------
\* Bounds of the model

\* the clock is followed up to MaxTempo seconds
MaxTempo == 2
\* at most MaxFilhos descendants are returned by one enumeration
MaxFilhos == 1
\* at most MaxExecucoes runs are launched from the main menu
MaxExecucoes == 2

\* readings returned by psutil for a live process (MB, percent)
Leituras == {[mem |-> 1, cpu |-> 1], [mem |-> 2, cpu |-> 0]}
\* what the operator types at the prompts of the interval and of the timeout
EntradasIntervalo == {"", "abc", "-1", "0", "2", "nan"}
EntradasTimeout == {"", "abc", "-1", "0", "1", "nan"}
\* what the operator types at a menu prompt ("x" stands for any other text)
OpcoesPrincipal == {"1", "2", "3", "x"}
OpcoesConfig == {"1", "2", "3", "4", "5", "6", "x"}
\* command lines
Argumentos == {<<>>, <<"-h">>, <<"-c">>, <<"-f", "a.py">>, <<"-f", "a">>,
               <<"-f", "a.py", "-c">>, <<"-f", "a.py", "-h">>,
               <<"-c", "-h">>, <<"--help", "-f", "a">>, <<"--config", "-f", "a">>}
\* file names typed at the "Arquivo Python" prompt
Arquivos == {"", "a", "a.py"}
\* readings returned by psutil for a live descendant
MemFilho == {1}
CpuFilho == {0}

----------------------------------------------------------------------------
\* Python values

None == [tipo |-> "None", v |-> 0]
NaN == [tipo |-> "nan", v |-> 0]
Num(n) == [tipo |-> "float", v |-> n]
ValueError == [tipo |-> "ValueError", v |-> 0]

\* float(entrada)
ParseFloat(entrada) ==
    CASE entrada = "-1" -> Num(-1)
      [] entrada = "0" -> Num(0)
      [] entrada = "1" -> Num(1)
      [] entrada = "2" -> Num(2)
      [] entrada = "nan" -> NaN
      [] OTHER -> ValueError

\* a <= b and a > b on floats: every comparison with NaN is false
Le(a, b) == a.tipo = "float" /\ b.tipo = "float" /\ a.v <= b.v
Gt(a, b) == a.tipo = "float" /\ b.tipo = "float" /\ a.v > b.v

\* bool(x) for None and floats: None and 0.0 are false, NaN is true
Truthy(x) == x.tipo = "nan" \/ (x.tipo = "float" /\ x.v # 0)

RECURSIVE Soma(_)
Soma(s) == IF s = <<>> THEN 0 ELSE Head(s) + Soma(Tail(s))

\* the last element in place of the largest
MaxUltimo(s) == s[Len(s)]

RECURSIVE Max(_)
Max(s) == IF Len(s) = 1 THEN s[1]
          ELSE LET m == Max(Tail(s)) IN IF s[1] >= m THEN s[1] ELSE m

----------------------------------------------------------------------------
\* Settings

ConfigPadrao ==
    [logs_ativos |-> TRUE, intervalo_segundos |-> Num(1), timeout_segundos |-> None,
     monitorar_subprocessos |-> FALSE, exportar_csv |-> FALSE]

\* one pass of the loop of validar_float: fim is FALSE where the source says
\* `continue` (the prompt is shown again), TRUE where it returns valor
validar_float(entrada, min_val, permitir_vazio) ==
    IF permitir_vazio /\ entrada = "" THEN [fim |-> TRUE, valor |-> None]
    ELSE LET valor == ParseFloat(entrada) IN
         IF valor = ValueError THEN [fim |-> FALSE, valor |-> None]
         ELSE IF min_val # None /\ Le(valor, min_val) THEN [fim |-> FALSE, valor |-> None]
         ELSE [fim |-> TRUE, valor |-> valor]

\* the text of a box(..., tipo="erro") and the value formatted into it
Box(texto, detalhe) == [texto |-> texto, detalhe |-> detalhe]
SemErro == Box("", "")

NoProcesso == [lancado |-> FALSE, vivo |-> FALSE, returncode |-> FALSE, terminate |-> FALSE]

Init ==
    /\ args \in Argumentos
    /\ pc = "main"
    /\ configuracoes = ConfigPadrao
    /\ cfg_inicio = ConfigPadrao
    /\ execucoes = 0
    /\ arquivo = ""
    /\ comando = <<>>
    /\ erro = SemErro
    /\ processo_alvo = NoProcesso
    /\ relogio = 0
    /\ inicio = 0
    /\ tempo_exec = 0
    /\ mem = 0
    /\ cpu = 0
    /\ filhos = <<>>
    /\ contrib = <<>>
    /\ medidas_ram = <<>>
    /\ medidas_cpu = <<>>
    /\ dados_csv = <<>>
    /\ logs = <<>>
    /\ motivo = "nenhum"
    /\ relatorio = <<>>
    /\ csv_arquivo = <<>>
    /\ excecao = "nenhuma"

InArgs(a) == \E i \in 1..Len(args) : args[i] = a

\* args.index("-f")
IndexF == CHOOSE i \in 1..Len(args) : args[i] = "-f" /\ \A j \in 1..(i - 1) : args[j] # "-f"

arquivo_direto ==
    IF InArgs("-f") /\ IndexF + 1 <= Len(args) THEN args[IndexF + 1] ELSE ""

\* a slip in the dispatch: -f is looked at before -h and -c
main_f_primeiro ==
    /\ pc = "main"
    /\ pc' = IF arquivo_direto # "" THEN "extensao"
             ELSE IF InArgs("-h") \/ InArgs("--help") THEN "fim"
             ELSE IF InArgs("-c") \/ InArgs("--config") THEN "menu_config"
             ELSE "menu_principal"
    /\ arquivo' = IF pc' = "extensao" THEN arquivo_direto ELSE arquivo
    /\ UNCHANGED <<args, configuracoes, execucoes, relogio, excecao, comando, erro, processo_alvo,
                   inicio, tempo_exec, mem, cpu, filhos, contrib, medidas_ram, medidas_cpu,
                   dados_csv, logs, motivo, relatorio, csv_arquivo, cfg_inicio>>

\* main(): the dispatch on the command line
main ==
    /\ pc = "main"
    /\ pc' = IF InArgs("-h") \/ InArgs("--help") THEN "fim"
             ELSE IF InArgs("-c") \/ InArgs("--config") THEN "menu_config"
             ELSE IF arquivo_direto # "" THEN "extensao"
             ELSE "menu_principal"
    /\ arquivo' = IF pc' = "extensao" THEN arquivo_direto ELSE arquivo
    /\ UNCHANGED <<args, configuracoes, execucoes, relogio, excecao, comando, erro, processo_alvo,
                   inicio, tempo_exec, mem, cpu, filhos, contrib, medidas_ram, medidas_cpu,
                   dados_csv, logs, motivo, relatorio, csv_arquivo, cfg_inicio>>

\* the while loop of main(): one option typed at the main menu
menu_principal ==
    /\ pc = "menu_principal"
    /\ \E opcao \in OpcoesPrincipal :
         /\ opcao = "1" => execucoes < MaxExecucoes
         /\ pc' = CASE opcao = "1" -> "pedir_arquivo"
                   [] opcao = "2" -> "menu_config"
                   [] opcao = "3" -> "fim"
                   [] OTHER -> "menu_principal"
    /\ UNCHANGED <<args, configuracoes, execucoes, relogio, excecao>>
    /\ UNCHANGED run_vars

----------------------------------------------------------------------------
\* The settings menu

alternar_logs(c) == [c EXCEPT !.logs_ativos = ~@]
alternar_subprocessos(c) == [c EXCEPT !.monitorar_subprocessos = ~@]
alternar_csv(c) == [c EXCEPT !.exportar_csv = ~@]

\* ajustar_intervalo after validar_float returned novo_valor
ajustar_intervalo(c, novo_valor) ==
    IF Truthy(novo_valor) THEN [c EXCEPT !.intervalo_segundos = novo_valor] ELSE c

\* ajustar_timeout after validar_float returned novo_valor
ajustar_timeout(c, novo_valor) ==
    IF novo_valor = None THEN [c EXCEPT !.timeout_segundos = None]
    ELSE [c EXCEPT !.timeout_segundos = novo_valor]

\* where menu_configuracoes returns to: main() called it for -c, or the main menu did
RetornoConfig == IF InArgs("-c") \/ InArgs("--config") THEN "fim" ELSE "menu_principal"

\* the while loop of menu_configuracoes: one option typed at the settings menu
menu_configuracoes ==
    /\ pc = "menu_config"
    /\ \E opcao \in OpcoesConfig :
         /\ pc' = CASE opcao = "2" -> "ajustar_intervalo"
                    [] opcao = "3" -> "ajustar_timeout"
                    [] opcao = "6" -> RetornoConfig
                    [] OTHER -> "menu_config"
         /\ configuracoes' = CASE opcao = "1" -> alternar_logs(configuracoes)
                               [] opcao = "4" -> alternar_subprocessos(configuracoes)
                               [] opcao = "5" -> alternar_csv(configuracoes)
                               [] OTHER -> configuracoes
    /\ UNCHANGED <<args, execucoes, relogio, excecao>>
    /\ UNCHANGED run_vars

\* one line typed at the prompt of ajustar_intervalo
prompt_intervalo ==
    /\ pc = "ajustar_intervalo"
    /\ \E entrada \in EntradasIntervalo :
         LET r == validar_float(entrada, Num(0), FALSE) IN
         IF r.fim
         THEN /\ configuracoes' = ajustar_intervalo(configuracoes, r.valor)
              /\ pc' = "menu_config"
         ELSE UNCHANGED <<configuracoes, pc>>
    /\ UNCHANGED <<args, execucoes, relogio, excecao>>
    /\ UNCHANGED run_vars

\* one line typed at the prompt of ajustar_timeout
prompt_timeout ==
    /\ pc = "ajustar_timeout"
    /\ \E entrada \in EntradasTimeout :
         LET r == validar_float(entrada, Num(0), TRUE) IN
         IF r.fim
         THEN /\ configuracoes' = ajustar_timeout(configuracoes, r.valor)
              /\ pc' = "menu_config"
         ELSE UNCHANGED <<configuracoes, pc>>
    /\ UNCHANGED <<args, execucoes, relogio, excecao>>
    /\ UNCHANGED run_vars

----------------------------------------------------------------------------
\* executar_monitoramento: launch

\* arquivo.endswith('.py') and arquivo + '.py' on the file names of the model
\* a slip in the test of the extension: no name counts as ending in ".py"
endswith_py_nunca(a) == FALSE

endswith_py(a) == a = "a.py"
mais_py(a) == CASE a = "a" -> "a.py" [] a = "a.py" -> "a.py.py"

\* where executar_monitoramento returns to: main() called it for -f, or the main menu did
RetornoExec == IF arquivo_direto # "" THEN "fim" ELSE "menu_principal"

\* the positions of executar_monitoramento inside its try block
NoTry == {"poll", "timeout", "ler", "enumerar", "filho_mem", "filho_cpu", "append_ram",
          "append_cpu", "csv", "log", "sleep"}
\* the positions of executar_monitoramento after the launch
NaExecucao == NoTry \cup {"lancado", "fim_loop", "exportar", "finalizado"}

\* Popen.terminate(): the termination request
terminate(p) == [p EXCEPT !.terminate = TRUE]

\* an exception that nothing catches ends the program with a traceback
Crash(e) ==
    /\ pc' = "crash"
    /\ excecao' = e

\* the prompt for the file name, when no file was passed
pedir_arquivo ==
    /\ pc = "pedir_arquivo"
    /\ \E a \in Arquivos :
         /\ arquivo' = a
         /\ pc' = IF a = "" THEN "menu_principal" ELSE "extensao"
         /\ erro' = IF a = "" THEN Box("Nome do arquivo nao pode estar vazio", "") ELSE SemErro
    /\ UNCHANGED <<args, configuracoes, execucoes, relogio, excecao, comando, processo_alvo,
                   inicio, tempo_exec, mem, cpu, filhos, contrib, medidas_ram, medidas_cpu,
                   dados_csv, logs, motivo, relatorio, csv_arquivo, cfg_inicio>>

\* what subprocess.Popen does: it starts the target, or raises FileNotFoundError,
\* or raises another exception
ResultadosPopen == {"ok", "FileNotFoundError", "PermissionError"}

\* a slip in the launch: the except clauses show the box and do not return
lancar_sem_return ==
    /\ pc = "extensao"
    /\ LET nome == IF endswith_py(arquivo) THEN arquivo ELSE mais_py(arquivo) IN
       /\ arquivo' = nome
       /\ \E r \in ResultadosPopen :
            /\ erro' = CASE r = "ok" -> SemErro
                         [] r = "FileNotFoundError" -> Box("Arquivo nao encontrado", nome)
                         [] OTHER -> Box("Erro ao iniciar processo", r)
            /\ comando' = <<"python", nome>>
            /\ processo_alvo' = [lancado |-> TRUE, vivo |-> r = "ok",
                                 returncode |-> FALSE, terminate |-> FALSE]
            /\ execucoes' = execucoes + 1
            /\ cfg_inicio' = configuracoes
            /\ pc' = "lancado"
    /\ UNCHANGED <<args, configuracoes, relogio, excecao, inicio, tempo_exec, mem, cpu,
                   filhos, contrib, medidas_ram, medidas_cpu, dados_csv, logs, motivo,
                   relatorio, csv_arquivo>>

\* the extension check and subprocess.Popen: on an exception the error box is
\* shown and the function returns
lancar ==
    /\ pc = "extensao"
    /\ LET nome == IF endswith_py(arquivo) THEN arquivo ELSE mais_py(arquivo) IN
       /\ arquivo' = nome
       /\ \E r \in ResultadosPopen :
            IF r = "ok"
            THEN /\ comando' = <<"python", nome>>
                 /\ erro' = SemErro
                 /\ processo_alvo' = [lancado |-> TRUE, vivo |-> TRUE,
                                      returncode |-> FALSE, terminate |-> FALSE]
                 /\ execucoes' = execucoes + 1
                 /\ cfg_inicio' = configuracoes
                 /\ pc' = "lancado"
            ELSE /\ erro' = IF r = "FileNotFoundError"
                            THEN Box("Arquivo nao encontrado", nome)
                            ELSE Box("Erro ao iniciar processo", r)
                 /\ pc' = RetornoExec
                 /\ UNCHANGED <<comando, processo_alvo, execucoes, cfg_inicio>>
    /\ UNCHANGED <<args, configuracoes, relogio, excecao, inicio, tempo_exec, mem, cpu,
                   filhos, contrib, medidas_ram, medidas_cpu, dados_csv, logs, motivo,
                   relatorio, csv_arquivo>>

\* from the [RUN] message to inicio = time.perf_counter()
\* a slip in the set-up: the start time is not taken anew
preparar_sem_inicio ==
    /\ pc = "lancado"
    /\ medidas_ram' = <<>>
    /\ medidas_cpu' = <<>>
    /\ dados_csv' = <<>>
    /\ pc' = "poll"
    /\ UNCHANGED <<args, configuracoes, cfg_inicio, execucoes, arquivo, comando, erro, processo_alvo,
                   relogio, inicio, tempo_exec, mem, cpu, filhos, contrib, logs, motivo, relatorio,
                   csv_arquivo, excecao>>

preparar ==
    /\ pc = "lancado"
    /\ medidas_ram' = <<>>
    /\ medidas_cpu' = <<>>
    /\ dados_csv' = <<>>
    /\ inicio' = relogio
    /\ pc' = "poll"
    /\ UNCHANGED <<args, configuracoes, cfg_inicio, execucoes, arquivo, comando, erro, processo_alvo,
                   relogio, tempo_exec, mem, cpu, filhos, contrib, logs, motivo, relatorio,
                   csv_arquivo, excecao>>

----------------------------------------------------------------------------
\* executar_monitoramento: the sampling loop

\* a slip in the loop: the timeout is looked at before the exit status
poll_timeout_primeiro ==
    /\ pc = "poll"
    /\ IF Truthy(configuracoes.timeout_segundos)
          /\ Gt(Num(relogio - inicio), configuracoes.timeout_segundos)
       THEN /\ processo_alvo' = terminate(processo_alvo)
            /\ motivo' = "TimedOut"
            /\ pc' = "fim_loop"
       ELSE IF processo_alvo.vivo
       THEN /\ pc' = "timeout"
            /\ UNCHANGED <<processo_alvo, motivo>>
       ELSE /\ processo_alvo' = [processo_alvo EXCEPT !.returncode = TRUE]
            /\ motivo' = "Completed"
            /\ pc' = "fim_loop"
    /\ UNCHANGED <<args, configuracoes, cfg_inicio, execucoes, arquivo, comando, erro, relogio,
                   inicio, tempo_exec, mem, cpu, filhos, contrib, medidas_ram, medidas_cpu,
                   dados_csv, logs, relatorio, csv_arquivo, excecao>>

\* while processo_alvo.poll() is None
poll ==
    /\ pc = "poll"
    /\ IF processo_alvo.vivo
       THEN /\ pc' = "timeout"
            /\ UNCHANGED <<processo_alvo, motivo>>
       ELSE /\ processo_alvo' = [processo_alvo EXCEPT !.returncode = TRUE]
            /\ motivo' = "Completed"
            /\ pc' = "fim_loop"
    /\ UNCHANGED <<args, configuracoes, cfg_inicio, execucoes, arquivo, comando, erro, relogio,
                   inicio, tempo_exec, mem, cpu, filhos, contrib, medidas_ram, medidas_cpu,
                   dados_csv, logs, relatorio, csv_arquivo, excecao>>

\* a slip in the condition: the limit itself already counts as exceeded
timeout_atingido(c, t) ==
    Truthy(c.timeout_segundos) /\ Le(c.timeout_segundos, Num(t))

\* the condition of the timeout branch
timeout_excedido(c, t) ==
    Truthy(c.timeout_segundos) /\ Gt(Num(t), c.timeout_segundos)

\* a slip in the loop: the tick is sampled before the timeout is looked at
verificar_timeout_apos_leitura ==
    /\ pc = "timeout"
    /\ tempo_exec' = relogio - inicio
    /\ IF timeout_excedido(configuracoes, tempo_exec')
       THEN /\ \E l \in Leituras :
                 /\ mem' = l.mem
                 /\ cpu' = l.cpu
                 /\ medidas_ram' = Append(medidas_ram, l.mem)
                 /\ medidas_cpu' = Append(medidas_cpu, l.cpu)
            /\ processo_alvo' = terminate(processo_alvo)
            /\ motivo' = "TimedOut"
            /\ pc' = "fim_loop"
       ELSE /\ pc' = "ler"
            /\ UNCHANGED <<processo_alvo, motivo, mem, cpu, medidas_ram, medidas_cpu>>
    /\ UNCHANGED <<args, configuracoes, cfg_inicio, execucoes, arquivo, comando, erro, relogio,
                   inicio, filhos, contrib, dados_csv, logs, relatorio, csv_arquivo, excecao>>

\* agora, tempo_exec and the timeout branch
verificar_timeout ==
    /\ pc = "timeout"
    /\ tempo_exec' = relogio - inicio
    /\ IF timeout_excedido(configuracoes, tempo_exec')
       THEN /\ processo_alvo' = terminate(processo_alvo)
            /\ motivo' = "TimedOut"
            /\ pc' = "fim_loop"
       ELSE /\ pc' = "ler"
            /\ UNCHANGED <<processo_alvo, motivo>>
    /\ UNCHANGED <<args, configuracoes, cfg_inicio, execucoes, arquivo, comando, erro, relogio,
                   inicio, mem, cpu, filhos, contrib, medidas_ram, medidas_cpu,
                   dados_csv, logs, relatorio, csv_arquivo, excecao>>

\* proc.memory_info() and proc.cpu_percent() of the target: a live target gives
\* a reading; a target that has exited gives NoSuchProcess or the zeros of a zombie
ler ==
    /\ pc = "ler"
    /\ \/ /\ processo_alvo.vivo
          /\ \E l \in Leituras :
               /\ mem' = l.mem
               /\ cpu' = l.cpu
          /\ pc' = IF configuracoes.monitorar_subprocessos THEN "enumerar" ELSE "append_ram"
          /\ UNCHANGED excecao
       \/ /\ ~processo_alvo.vivo
          /\ mem' = 0
          /\ cpu' = 0
          /\ pc' = IF configuracoes.monitorar_subprocessos THEN "enumerar" ELSE "append_ram"
          /\ UNCHANGED excecao
       \/ /\ ~processo_alvo.vivo
          /\ Crash("NoSuchProcess")
          /\ UNCHANGED <<mem, cpu>>
    /\ UNCHANGED <<args, configuracoes, cfg_inicio, execucoes, arquivo, comando, erro, processo_alvo,
                   relogio, inicio, tempo_exec, filhos, contrib, medidas_ram, medidas_cpu,
                   dados_csv, logs, motivo, relatorio, csv_arquivo>>

\* proc.children(recursive=True): the descendants alive at this moment
enumerar ==
    /\ pc = "enumerar"
    /\ \/ /\ \E n \in 0..MaxFilhos :
               /\ filhos' = [i \in 1..n |-> i]
               /\ pc' = IF n = 0 THEN "append_ram" ELSE "filho_mem"
          /\ UNCHANGED excecao
       \/ /\ ~processo_alvo.vivo
          /\ Crash("NoSuchProcess")
          /\ UNCHANGED filhos
    /\ UNCHANGED <<args, configuracoes, cfg_inicio, execucoes, arquivo, comando, erro, processo_alvo,
                   relogio, inicio, tempo_exec, mem, cpu, contrib, medidas_ram, medidas_cpu,
                   dados_csv, logs, motivo, relatorio, csv_arquivo>>

\* the position after the body of the for loop for one descendant
ProximoFilho == IF Len(filhos) > 1 THEN "filho_mem" ELSE "append_ram"

\* mem += filho.memory_info().rss: the descendant answers, or it has exited
\* since the enumeration and NoSuchProcess is caught by `pass`
filho_mem ==
    /\ pc = "filho_mem"
    /\ \/ \E m \in MemFilho :
            /\ mem' = mem + m
            /\ contrib' = Append(contrib, [filho |-> Head(filhos), mem |-> m, cpu |-> 0,
                                           excecao |-> FALSE])
            /\ pc' = "filho_cpu"
            /\ UNCHANGED filhos
       \/ /\ contrib' = Append(contrib, [filho |-> Head(filhos), mem |-> 0, cpu |-> 0,
                                         excecao |-> TRUE])
          /\ filhos' = Tail(filhos)
          /\ pc' = ProximoFilho
          /\ UNCHANGED mem
    /\ UNCHANGED <<args, configuracoes, cfg_inicio, execucoes, arquivo, comando, erro, processo_alvo,
                   relogio, inicio, tempo_exec, cpu, medidas_ram, medidas_cpu,
                   dados_csv, logs, motivo, relatorio, csv_arquivo, excecao>>

\* cpu += filho.cpu_percent(): the descendant answers, or it has exited since
\* its memory was read and NoSuchProcess is caught by `pass`
filho_cpu ==
    /\ pc = "filho_cpu"
    /\ \/ \E c \in CpuFilho :
            /\ cpu' = cpu + c
            /\ contrib' = [contrib EXCEPT ![Len(contrib)].cpu = c]
       \/ /\ contrib' = [contrib EXCEPT ![Len(contrib)].excecao = TRUE]
          /\ UNCHANGED cpu
    /\ filhos' = Tail(filhos)
    /\ pc' = ProximoFilho
    /\ UNCHANGED <<args, configuracoes, cfg_inicio, execucoes, arquivo, comando, erro, processo_alvo,
                   relogio, inicio, tempo_exec, mem, medidas_ram, medidas_cpu,
                   dados_csv, logs, motivo, relatorio, csv_arquivo, excecao>>

\* medidas_ram.append(mem)
\* a slip in the append: the new value is put at the head of the list
append_ram_no_inicio ==
    /\ pc = "append_ram"
    /\ medidas_ram' = <<mem>> \o medidas_ram
    /\ contrib' = <<>>
    /\ pc' = "append_cpu"
    /\ UNCHANGED <<args, configuracoes, cfg_inicio, execucoes, arquivo, comando, erro, processo_alvo,
                   relogio, inicio, tempo_exec, mem, cpu, filhos, medidas_cpu,
                   dados_csv, logs, motivo, relatorio, csv_arquivo, excecao>>

append_ram ==
    /\ pc = "append_ram"
    /\ medidas_ram' = Append(medidas_ram, mem)
    /\ contrib' = <<>>
    /\ pc' = "append_cpu"
    /\ UNCHANGED <<args, configuracoes, cfg_inicio, execucoes, arquivo, comando, erro, processo_alvo,
                   relogio, inicio, tempo_exec, mem, cpu, filhos, medidas_cpu,
                   dados_csv, logs, motivo, relatorio, csv_arquivo, excecao>>

\* medidas_cpu.append(cpu)
append_cpu ==
    /\ pc = "append_cpu"
    /\ medidas_cpu' = Append(medidas_cpu, cpu)
    /\ pc' = "csv"
    /\ UNCHANGED <<args, configuracoes, cfg_inicio, execucoes, arquivo, comando, erro, processo_alvo,
                   relogio, inicio, tempo_exec, mem, cpu, filhos, contrib, medidas_ram,
                   dados_csv, logs, motivo, relatorio, csv_arquivo, excecao>>

\* f"{tempo_exec:.2f},{mem:.2f},{cpu:.1f}": whole numbers are printed exactly
Linha(t, m, c) == [tempo_segundos |-> t, ram_mb |-> m, cpu_percent |-> c]

\* if configuracoes["exportar_csv"]: dados_csv.append(...)
csv ==
    /\ pc = "csv"
    /\ dados_csv' = IF configuracoes.exportar_csv
                    THEN Append(dados_csv, Linha(tempo_exec, mem, cpu))
                    ELSE dados_csv
    /\ pc' = "log"
    /\ UNCHANGED <<args, configuracoes, cfg_inicio, execucoes, arquivo, comando, erro, processo_alvo,
                   relogio, inicio, tempo_exec, mem, cpu, filhos, contrib, medidas_ram,
                   medidas_cpu, logs, motivo, relatorio, csv_arquivo, excecao>>

\* sum(s) / len(s), kept as the pair <<sum, len>>
Media(s) == <<Soma(s), Len(s)>>

\* if configuracoes["logs_ativos"]: the running means and the log line
log ==
    /\ pc = "log"
    /\ logs' = IF configuracoes.logs_ativos
               THEN Append(logs, [tempo |-> tempo_exec, mem |-> mem,
                                  media_ram |-> Media(medidas_ram), cpu |-> cpu,
                                  media_cpu |-> Media(medidas_cpu)])
               ELSE logs
    /\ pc' = "sleep"
    /\ UNCHANGED <<args, configuracoes, cfg_inicio, execucoes, arquivo, comando, erro, processo_alvo,
                   relogio, inicio, tempo_exec, mem, cpu, filhos, contrib, medidas_ram,
                   medidas_cpu, dados_csv, motivo, relatorio, csv_arquivo, excecao>>

\* time.sleep(configuracoes["intervalo_segundos"]): ValueError on NaN
sleep ==
    /\ pc = "sleep"
    /\ IF configuracoes.intervalo_segundos.tipo = "float"
       THEN /\ relogio + configuracoes.intervalo_segundos.v <= MaxTempo
            /\ relogio' = relogio + configuracoes.intervalo_segundos.v
            /\ pc' = "poll"
            /\ UNCHANGED excecao
       ELSE /\ Crash("ValueError")
            /\ UNCHANGED relogio
    /\ UNCHANGED <<args, configuracoes, cfg_inicio, execucoes, arquivo, comando, erro, processo_alvo,
                   inicio, tempo_exec, mem, cpu, filhos, contrib, medidas_ram,
                   medidas_cpu, dados_csv, logs, motivo, relatorio, csv_arquivo>>

\* Ctrl-C: inside the try block the except clause prints [STOP] and issues
\* terminate(); anywhere else KeyboardInterrupt leaves the program
KeyboardInterrupt ==
    /\ pc \notin {"main", "fim", "crash"}
    /\ IF pc \in NoTry
       THEN /\ processo_alvo' = terminate(processo_alvo)
            /\ motivo' = "Interrupted"
            /\ pc' = "fim_loop"
            /\ UNCHANGED excecao
       ELSE /\ Crash("KeyboardInterrupt")
            /\ UNCHANGED <<processo_alvo, motivo>>
    /\ UNCHANGED <<args, configuracoes, cfg_inicio, execucoes, arquivo, comando, erro, relogio,
                   inicio, tempo_exec, mem, cpu, filhos, contrib, medidas_ram, medidas_cpu,
                   dados_csv, logs, relatorio, csv_arquivo>>

\* the operating system: the target exits, by itself or on the termination request
AlvoSai ==
    /\ pc \in NaExecucao
    /\ processo_alvo.vivo
    /\ processo_alvo' = [processo_alvo EXCEPT !.vivo = FALSE]
    /\ UNCHANGED <<args, pc, configuracoes, cfg_inicio, execucoes, arquivo, comando, erro, relogio,
                   inicio, tempo_exec, mem, cpu, filhos, contrib, medidas_ram, medidas_cpu,
                   dados_csv, logs, motivo, relatorio, csv_arquivo, excecao>>

----------------------------------------------------------------------------
\* executar_monitoramento: the final report

\* fim, tempo_total and the RESULTADOS table: the means and peaks of both series
relatar ==
    /\ pc = "fim_loop"
    /\ IF medidas_ram = <<>>
       THEN /\ pc' = "finalizado"
            /\ UNCHANGED <<relatorio, excecao>>
       ELSE IF medidas_cpu = <<>>
       THEN /\ Crash("ZeroDivisionError")
            /\ UNCHANGED relatorio
       ELSE /\ relatorio' = Append(relatorio,
                                   [tempo_total |-> relogio - inicio,
                                    ram_media |-> Media(medidas_ram),
                                    ram_pico |-> Max(medidas_ram),
                                    cpu_media |-> Media(medidas_cpu),
                                    cpu_pico |-> Max(medidas_cpu)])
            /\ pc' = "exportar"
            /\ UNCHANGED excecao
    /\ UNCHANGED <<args, configuracoes, cfg_inicio, execucoes, arquivo, comando, erro, processo_alvo,
                   relogio, inicio, tempo_exec, mem, cpu, filhos, contrib, medidas_ram,
                   medidas_cpu, dados_csv, logs, motivo, csv_arquivo>>

\* if configuracoes["exportar_csv"]: the header and the joined rows are written
exportar ==
    /\ pc = "exportar"
    /\ csv_arquivo' = IF configuracoes.exportar_csv
                      THEN Append(csv_arquivo,
                                  [cabecalho |-> <<"tempo_segundos", "ram_mb", "cpu_percent">>,
                                   linhas |-> dados_csv])
                      ELSE csv_arquivo
    /\ pc' = "finalizado"
    /\ UNCHANGED <<args, configuracoes, cfg_inicio, execucoes, arquivo, comando, erro, processo_alvo,
                   relogio, inicio, tempo_exec, mem, cpu, filhos, contrib, medidas_ram,
                   medidas_cpu, dados_csv, logs, motivo, relatorio, excecao>>

\* "Processo finalizado." and the return: the locals of the call are dropped,
\* and the history of the run is cleared for the next one
finalizar ==
    /\ pc = "finalizado"
    /\ pc' = RetornoExec
    /\ arquivo' = ""
    /\ comando' = <<>>
    /\ erro' = SemErro
    /\ processo_alvo' = NoProcesso
    /\ inicio' = 0
    /\ tempo_exec' = 0
    /\ mem' = 0
    /\ cpu' = 0
    /\ filhos' = <<>>
    /\ contrib' = <<>>
    /\ medidas_ram' = <<>>
    /\ medidas_cpu' = <<>>
    /\ dados_csv' = <<>>
    /\ logs' = <<>>
    /\ motivo' = "nenhum"
    /\ relatorio' = <<>>
    /\ csv_arquivo' = <<>>
    /\ UNCHANGED <<args, configuracoes, cfg_inicio, execucoes, relogio, excecao>>

----------------------------------------------------------------------------

Next ==
    \/ main
    \/ menu_principal
    \/ menu_configuracoes
    \/ prompt_intervalo
    \/ prompt_timeout
    \/ pedir_arquivo
    \/ lancar
    \/ preparar
    \/ poll
    \/ verificar_timeout
    \/ ler
    \/ enumerar
    \/ filho_mem
    \/ filho_cpu
    \/ append_ram
    \/ append_cpu
    \/ csv
    \/ log
    \/ sleep
    \/ KeyboardInterrupt
    \/ AlvoSai
    \/ relatar
    \/ exportar
    \/ finalizar

Spec == Init /\ [][Next]_vars

\* The settings functions called while a run is in progress, by another thread
\* of the process that holds the module: configuracoes is a module-level dict
\* and nothing in the settings functions looks at the state of a run.  One
\* change per run is followed.
alterar_durante_execucao ==
    /\ pc \in NaExecucao
    /\ configuracoes = cfg_inicio
    /\ \/ configuracoes' = alternar_logs(configuracoes)
       \/ configuracoes' = alternar_subprocessos(configuracoes)
       \/ configuracoes' = alternar_csv(configuracoes)
       \/ \E entrada \in EntradasIntervalo :
            /\ validar_float(entrada, Num(0), FALSE).fim
            /\ configuracoes' =
                 ajustar_intervalo(configuracoes, validar_float(entrada, Num(0), FALSE).valor)
            /\ configuracoes' # configuracoes
       \/ \E entrada \in EntradasTimeout :
            /\ validar_float(entrada, Num(0), TRUE).fim
            /\ configuracoes' =
                 ajustar_timeout(configuracoes, validar_float(entrada, Num(0), TRUE).valor)
            /\ configuracoes' # configuracoes
    /\ UNCHANGED <<args, pc, execucoes, relogio, excecao>>
    /\ UNCHANGED run_vars

NextConcorrente == Next \/ alterar_durante_execucao

SpecConcorrente == Init /\ [][NextConcorrente]_vars

----------------------------------------------------------------------------
\* Properties

\* the run has left the loop, by the loop's own exits or by an exception
SaiuDoLoop == processo_alvo.lancado /\ pc \in {"fim_loop", "exportar", "finalizado", "crash"}

\* C1: a failed reading of the target (it exited between poll() and the
\* reading) never leaves executar_monitoramento as an exception: the run ends
\* as Completed and goes on to the final report.
C1_FalhaDeLeituraNaoEscapa ==
    pc = "crash" => excecao # "NoSuchProcess"

\* C2: an interrupt that arrives after the launch and before the loop has been
\* left issues terminate() on the target and ends the run as Interrupted.
C2_InterrupcaoSempreTermina ==
    (processo_alvo.lancado /\ excecao = "KeyboardInterrupt" /\ motivo \in {"nenhum", "Interrupted"})
        => (processo_alvo.terminate /\ motivo = "Interrupted")

\* C3: when a launched run has left Running, the target was observed as exited
\* by poll() or terminate() was issued on it.
C3_NenhumAlvoOrfao ==
    SaiuDoLoop => (processo_alvo.returncode \/ processo_alvo.terminate)

\* the three series of the run
Series == <<medidas_ram, medidas_cpu, dados_csv>>

\* C4: on a tick where a timeout is configured and the elapsed time is strictly
\* greater than it, the step taken from the timeout check issues terminate() and
\* leaves the loop, and neither that step nor any later step of the run appends
\* to the memory series, the CPU series or the export rows.
C4_TimeoutAntesDaLeitura ==
    [][/\ (/\ pc = "timeout"
           /\ pc' # "timeout"
           /\ configuracoes.timeout_segundos # None
           /\ Gt(Num(relogio - inicio), configuracoes.timeout_segundos))
          => (/\ processo_alvo'.terminate
              /\ pc' = "fim_loop"
              /\ Series' = Series)
       /\ (motivo = "TimedOut" /\ pc # "finalizado") => Series' = Series]_vars

\* C4 witness: the timeout branch was taken after two ticks had been sampled
C4_Witness ==
    /\ pc = "fim_loop"
    /\ motivo = "TimedOut"
    /\ processo_alvo.terminate
    /\ tempo_exec = 2
    /\ Len(medidas_ram) = 2
    /\ Len(medidas_cpu) = 2

\* C5: when the run ended on the timeout, the target is not running any more
\* when executar_monitoramento returns.
C5_AlvoParadoAposTimeout ==
    (pc = "finalizado" /\ motivo = "TimedOut") => ~processo_alvo.vivo

\* C6 as claimed: the timeout check comes first, so a run whose target has
\* exited while the elapsed time exceeds the timeout is never left as Completed.
C6_TimeoutPrimeiro ==
    (pc = "fim_loop" /\ motivo = "Completed")
        => ~timeout_excedido(configuracoes, relogio - inicio)

\* C6 amended: the exit status is looked at first on every tick and the timeout
\* only when poll() reported the target running: a tick on which poll() sees the
\* target exited leaves the loop as Completed with no terminate() issued by it,
\* whatever the elapsed time, and the timeout check is reached only from a
\* poll() that saw the target running.
C6_PollPrimeiro ==
    [][/\ (pc = "poll" /\ pc' # "poll" /\ ~processo_alvo.vivo /\ motivo' # "Interrupted")
          => (/\ motivo' = "Completed"
              /\ pc' = "fim_loop"
              /\ processo_alvo'.returncode
              /\ processo_alvo'.terminate = processo_alvo.terminate)
       /\ (pc' = "timeout" /\ pc # "timeout") => (pc = "poll" /\ processo_alvo.vivo)
       /\ (motivo' = "TimedOut" /\ motivo # "TimedOut") => pc = "timeout"]_vars

\* C6 witness: the loop was left as Completed on a tick whose elapsed time
\* exceeds the timeout, and no terminate() was issued
C6_Witness ==
    /\ pc = "fim_loop"
    /\ motivo = "Completed"
    /\ timeout_excedido(configuracoes, relogio - inicio)
    /\ ~processo_alvo.terminate
    /\ Len(medidas_ram) >= 1

\* C7: a descendant whose query raised NoSuchProcess (it exited after the
\* enumeration) has added nothing to the memory total and nothing to the CPU
\* total of the sample.
C7_FilhoQueSaiuContribuiZero ==
    \A i \in 1..Len(contrib) :
        contrib[i].excecao => (contrib[i].mem = 0 /\ contrib[i].cpu = 0)

C9_ConfiguracaoValida ==
    /\ Gt(configuracoes.intervalo_segundos, Num(0))
    /\ \/ configuracoes.timeout_segundos = None
       \/ Gt(configuracoes.timeout_segundos, Num(0))

\* C10: a launched run whose target exited before the first reading, and which
\* was neither interrupted nor timed out, ends as Completed with no report, no
\* CSV file and no exception.
C10_SemAmostras ==
    (/\ SaiuDoLoop
     /\ pc \in {"finalizado", "crash"}
     /\ ~processo_alvo.vivo
     /\ medidas_ram = <<>>
     /\ medidas_cpu = <<>>
     /\ motivo \notin {"Interrupted", "TimedOut"}
     /\ excecao # "KeyboardInterrupt")
        => (/\ pc = "finalizado"
            /\ motivo = "Completed"
            /\ excecao = "nenhuma"
            /\ relatorio = <<>>
            /\ csv_arquivo = <<>>)

\* nothing of a run exists: no reading, no series, no log line, no report, no file
SemExecucao ==
    /\ mem = 0
    /\ cpu = 0
    /\ Series = <<<<>>, <<>>, <<>>>>
    /\ logs = <<>>
    /\ relatorio = <<>>
    /\ csv_arquivo = <<>>

Estatisticas(serie, media, pico) ==
    /\ \E i \in DOMAIN serie : serie[i] = pico
    /\ \A i \in DOMAIN serie : serie[i] <= pico
    /\ media = <<Soma(serie), Len(serie)>>
    /\ Len(serie) >= 1
    /\ pico * Len(serie) >= Soma(serie)
    /\ Soma(serie) >= 0

C13_UmaLinhaPorAmostra ==
    /\ (pc = "finalizado" /\ relatorio # <<>> /\ configuracoes.exportar_csv)
          => csv_arquivo # <<>>
    /\ csv_arquivo # <<>> =>
          LET f == csv_arquivo[Len(csv_arquivo)] IN
          /\ f.cabecalho = <<"tempo_segundos", "ram_mb", "cpu_percent">>
          /\ Len(f.linhas) = Len(medidas_ram)
          /\ Len(f.linhas) = Len(medidas_cpu)
          /\ \A i \in DOMAIN f.linhas :
                /\ f.linhas[i].ram_mb = medidas_ram[i]
                /\ f.linhas[i].cpu_percent = medidas_cpu[i]

\* C14: the tick that takes the timeout branch issues terminate() at an
\* elapsed time greater than the timeout T and at most T plus the interval I
\* (time passes in the sleeps only): the overshoot is at most one interval.
C14_ExcessoDeUmIntervalo ==
    [][(pc = "timeout" /\ motivo' = "TimedOut") =>
          LET T == configuracoes.timeout_segundos
              I == configuracoes.intervalo_segundos IN
          /\ processo_alvo'.terminate
          /\ T.tipo = "float"
          /\ I.tipo = "float"
          /\ tempo_exec' > T.v
          /\ tempo_exec' <= T.v + I.v]_vars

\* C14 witness: a run timed out with the largest overshoot, one whole interval
C14_Witness ==
    /\ motivo = "TimedOut"
    /\ processo_alvo.terminate
    /\ configuracoes.timeout_segundos = Num(1)
    /\ configuracoes.intervalo_segundos = Num(1)
    /\ tempo_exec = 2
    /\ Len(medidas_ram) = 2

\* C15: with no timeout configured (timeout_segundos is None) a step of the
\* loop never takes the timeout branch and issues terminate() only for an
\* interrupt of the operator, and a step that leaves the loop does so because
\* the target has exited or because the operator interrupted.
C15_SemTimeoutSemLimite ==
    [][(pc \in NoTry /\ configuracoes.timeout_segundos = None) =>
          /\ motivo' # "TimedOut"
          /\ (processo_alvo'.terminate /\ ~processo_alvo.terminate)
                => motivo' = "Interrupted"
          /\ pc' \notin NoTry
                => \/ motivo' = "Interrupted"
                   \/ ~processo_alvo.vivo]_vars

\* C16: the target is launched as <interpreter> <path> with exactly the path
\* supplied: the path handed to Popen is the one given with -f or typed by the
\* operator, for every supplied path.
C16_CaminhoFornecido ==
    [][(pc = "extensao" /\ pc' = "lancado") => comando' = <<"python", arquivo>>]_vars

\* C16, amended: the target is launched as python <path>, where <path> is the
\* supplied path when it ends in ".py" and the supplied path followed by ".py"
\* when it does not; with -f the supplied path is the argument after -f.
C16_CaminhoComExtensao ==
    [][(pc = "extensao" /\ pc' = "lancado") =>
          /\ arquivo \in {"a", "a.py"}
          /\ InArgs("-f") => arquivo = arquivo_direto
          /\ arquivo = "a.py" => comando' = <<"python", "a.py">>
          /\ arquivo = "a" => comando' = <<"python", "a.py">>]_vars

\* C16 witness: a target launched from -f a, a path without the extension
C16_Witness ==
    /\ args = <<"-f", "a">>
    /\ processo_alvo.lancado
    /\ comando = <<"python", "a.py">>
    /\ pc = "poll"

\* the program is at main(), in the settings menu, or has ended
SoConfiguracao ==
    pc \in {"main", "menu_config", "ajustar_intervalo", "ajustar_timeout", "fim", "crash"}

\* C17: with -h/--help or -c/--config among the arguments, whatever the other
\* arguments (-f <path> included), no target is ever launched and the file
\* prompt and the main menu are never reached; with -h/--help the settings menu
\* is not opened either and the settings stay as they were.
C17_AjudaEConfigNaoMonitoram ==
    /\ (InArgs("-h") \/ InArgs("--help") \/ InArgs("-c") \/ InArgs("--config"))
          => /\ SoConfiguracao
             /\ ~processo_alvo.lancado
             /\ comando = <<>>
             /\ execucoes = 0
             /\ SemExecucao
    /\ (InArgs("-h") \/ InArgs("--help"))
          => /\ pc \in {"main", "fim"}
             /\ configuracoes = ConfigPadrao

\* C17 witness: main() has returned from -c together with -f <path>, after the
\* settings menu was used, and nothing was launched
C17_Witness ==
    /\ args = <<"-f", "a.py", "-c">>
    /\ pc = "fim"
    /\ configuracoes.exportar_csv
    /\ ~processo_alvo.lancado
    /\ comando = <<>>

\* C18: a run leaves the sampling loop when its target has exited, and when
\* a timeout is configured even if the target never exits.  In finite-run form:
\* a poll() that finds the target exited leaves the loop, every sleep that
\* returns to the loop has advanced the clock, and whenever a tick goes on past
\* the timeout check with a timeout configured there is an elapsed time at which
\* the check ends the run.
C18_SaiDoLoop ==
    [][/\ (pc = "poll" /\ ~processo_alvo.vivo) => pc' \notin NoTry
       /\ (pc = "sleep" /\ pc' = "poll") => relogio' > relogio
       /\ (pc = "timeout" /\ configuracoes.timeout_segundos # None /\ pc' \in NoTry)
             => \E t \in 0..(configuracoes.timeout_segundos.v + 1) :
                   timeout_excedido(configuracoes, t)]_vars

\* C19: a run that was launched and collected at least one sample gives its
\* final summary exactly once, after the loop, whether the target exited, the
\* timeout expired or the operator interrupted, and the summary is computed from
\* all the samples collected (a further interrupt after the loop is left aside).
C19_ResumoUmaVez ==
    /\ Len(relatorio) <= 1
    /\ relatorio # <<>> => SaiuDoLoop
    /\ (/\ pc \in {"exportar", "finalizado", "crash"}
        /\ processo_alvo.lancado
        /\ medidas_ram # <<>>
        /\ motivo \in {"Completed", "TimedOut", "Interrupted"}
        /\ excecao # "KeyboardInterrupt")
          => /\ Len(relatorio) = 1
             /\ relatorio[1].ram_media = <<Soma(medidas_ram), Len(medidas_ram)>>
             /\ relatorio[1].cpu_media = <<Soma(medidas_cpu), Len(medidas_ram)>>

\* s2 is s, or s with one element appended at its end
SoAcrescenta(s, s2) ==
    \/ s2 = s
    \/ /\ Len(s2) = Len(s) + 1
       /\ SubSeq(s2, 1, Len(s)) = s

\* the elapsed times of a sequence of elapsed times increase strictly
TemposCrescentes(tempos) ==
    \A i, j \in DOMAIN tempos : i < j => tempos[i] < tempos[j]

\* the elapsed times of the export rows and of the log lines
TemposCsv(linhas) == [i \in DOMAIN linhas |-> linhas[i].tempo_segundos]
TemposLog(linhas) == [i \in DOMAIN linhas |-> linhas[i].tempo]

\* C20: during a run every step leaves each series as it was or appends one
\* element at its end, a completed tick has appended one element to the memory
\* series and one to the CPU series, and the elapsed times of the recorded
\* samples increase strictly (the interval is positive).
C20_SeriesSoCrescem ==
    [][/\ pc # "finalizado"
          => /\ SoAcrescenta(medidas_ram, medidas_ram')
             /\ SoAcrescenta(medidas_cpu, medidas_cpu')
             /\ SoAcrescenta(dados_csv, dados_csv')
             /\ SoAcrescenta(logs, logs')
       /\ pc' = "sleep"
          => /\ Len(medidas_ram') = Len(medidas_cpu')
             /\ configuracoes.exportar_csv => Len(dados_csv') = Len(medidas_ram')
       /\ TemposCrescentes(TemposCsv(dados_csv'))
       /\ TemposCrescentes(TemposLog(logs'))]_vars

\* C20 witness: two ticks recorded, with different values, at elapsed times 0 and 1
C20_Witness ==
    /\ pc = "sleep"
    /\ Len(medidas_ram) = 2
    /\ medidas_ram[1] # medidas_ram[2]
    /\ Len(dados_csv) = 2
    /\ dados_csv[1].tempo_segundos = 0
    /\ dados_csv[2].tempo_segundos = 1
    /\ Len(logs) = 2

\* the samples of the run in progress: taken at elapsed times from 0 to the time
\* passed since the start of this run, at most one per unit of time
AmostrasDestaExecucao ==
    /\ Len(medidas_ram) <= (relogio - inicio) + 1
    /\ Len(medidas_cpu) <= (relogio - inicio) + 1
    /\ Len(dados_csv) <= (relogio - inicio) + 1
    /\ \A i \in DOMAIN dados_csv : dados_csv[i].tempo_segundos \in 0..(relogio - inicio)

\* C21: every run started from the main menu begins with empty memory, CPU
\* and export series and with its own start time, and its report and its CSV
\* are made of the samples taken during that run only: the series never hold more
\* samples than the run has had ticks, the report covers the time since the start
\* of this run, and the file holds the rows of this run.
C21_ExecucoesIsoladas ==
    [][/\ (pc = "lancado" /\ pc' = "poll")
          => /\ medidas_ram' = <<>>
             /\ medidas_cpu' = <<>>
             /\ dados_csv' = <<>>
             /\ inicio' = relogio
       /\ processo_alvo'.lancado /\ pc' # "lancado" => AmostrasDestaExecucao'
       /\ (pc = "fim_loop" /\ pc' = "exportar")
          => /\ Len(relatorio') = 1
             /\ relatorio'[1].tempo_total = relogio - inicio
             /\ relatorio'[1].ram_media = <<Soma(medidas_ram), Len(medidas_ram)>>
             /\ relatorio'[1].cpu_media = <<Soma(medidas_cpu), Len(medidas_cpu)>>
       /\ (pc = "exportar" /\ pc' = "finalizado" /\ configuracoes.exportar_csv)
          => csv_arquivo' = <<[cabecalho |-> <<"tempo_segundos", "ram_mb", "cpu_percent">>,
                               linhas |-> dados_csv]>>]_vars

\* C21 witness: the second run from the main menu, started after the first one
\* had sampled and slept, has written a file whose only row is its own first sample
C21_Witness ==
    /\ execucoes = 2
    /\ inicio >= 1
    /\ pc = "finalizado"
    /\ Len(medidas_ram) = 1
    /\ Len(relatorio) = 1
    /\ Len(csv_arquivo) = 1
    /\ Len(csv_arquivo[1].linhas) = 1
    /\ csv_arquivo[1].linhas[1].tempo_segundos = 0

\* C22: with logs enabled, a run that has left the loop has emitted exactly
\* one log line per recorded sample, and the k-th line shows the memory and CPU
\* values of the k-th sample and the means of the first k recorded memory and
\* CPU values.
C22_UmaLinhaDeLogPorAmostra ==
    (SaiuDoLoop /\ configuracoes.logs_ativos) =>
        /\ Len(logs) = Len(medidas_ram)
        /\ Len(logs) = Len(medidas_cpu)
        /\ \A k \in DOMAIN logs :
              /\ logs[k].mem = medidas_ram[k]
              /\ logs[k].cpu = medidas_cpu[k]
              /\ logs[k].media_ram = <<Soma(SubSeq(medidas_ram, 1, k)), k>>
              /\ logs[k].media_cpu = <<Soma(SubSeq(medidas_cpu, 1, k)), k>>

\* C23: at every point of a run that has left the loop, whether by the exit of
\* the target, a timeout, an interrupt or a failed reading, the memory series
\* and the CPU series have the same length and the export rows are no more than
\* that; inside the loop the two series differ only between the two appends
\* of a tick.
C23_SeriesDeMesmoTamanho ==
    /\ (processo_alvo.lancado /\ pc # "append_cpu")
          => Len(medidas_ram) = Len(medidas_cpu)
    /\ Len(dados_csv) <= Len(medidas_ram)
    /\ Len(dados_csv) <= Len(medidas_cpu)
====
